---- MODULE Spec2Model ----
(***************************************************************************)
(* Model of app.py: the colour-range material detector                     *)
(* (detect_materials_in_image), the disposal lookup                        *)
(* (classify_waste_material) and the POST /api/predict handler             *)
(* (classify_waste_api).                                                   *)
(*                                                                         *)
(* Numbers.  Python floats are kept as exact integers or exact fractions:  *)
(*   coverage    hundredths of a percent (10000 is 100.0)                  *)
(*   confidence  a fraction [num, den] inside the detector, hundredths     *)
(*               (95 is 0.95) after the handler's round(.., 2)             *)
(*   means       a fraction [num, den] (sum of channel values over count)  *)
(* An image is kept run-length encoded in row-major order: a run           *)
(* [value, len] is len consecutive pixels of one colour.                   *)
(***************************************************************************)
EXTENDS Integers, Sequences, FiniteSets, TLC

VARIABLES pc, request, img, detected_materials, material_regions,
          classified_materials, response, invoked, call

vars == <<pc, request, img, detected_materials, material_regions,
          classified_materials, response, invoked, call>>

\* Largest number of colour runs of an uploaded image.
MaxRuns == 2

----------------------------------------------------------------------------
\* The static tables

\* Iteration order of the material_profiles dict (insertion order).
ProfileOrder ==
    << "Plastic Bottle", "Food Waste", "Paper/Cardboard", "Metal Can", "Glass",
       "Plastic Bag", "Food Container", "Aluminum Foil", "Battery",
       "Electronic Device" >>

material_profiles ==
    [ n \in {ProfileOrder[i] : i \in 1..Len(ProfileOrder)} |->
      CASE n = "Plastic Bottle" ->
             [color_min |-> <<100, 150, 200>>, color_max |-> <<200, 220, 255>>,
              min_pixels |-> 500,
              characteristics |-> "transparent, blue tint, smooth"]
        [] n = "Food Waste" ->
             [color_min |-> <<50, 80, 20>>, color_max |-> <<180, 220, 100>>,
              min_pixels |-> 400,
              characteristics |-> "organic colors, irregular texture"]
        [] n = "Paper/Cardboard" ->
             [color_min |-> <<180, 160, 140>>, color_max |-> <<255, 240, 220>>,
              min_pixels |-> 600,
              characteristics |-> "fibrous, light colored, matte"]
        [] n = "Metal Can" ->
             [color_min |-> <<150, 150, 150>>, color_max |-> <<220, 220, 230>>,
              min_pixels |-> 300,
              characteristics |-> "reflective, metallic sheen, cylindrical"]
        [] n = "Glass" ->
             [color_min |-> <<200, 230, 230>>, color_max |-> <<255, 255, 255>>,
              min_pixels |-> 400,
              characteristics |-> "transparent, reflective, smooth"]
        [] n = "Plastic Bag" ->
             [color_min |-> <<200, 200, 200>>, color_max |-> <<255, 255, 255>>,
              min_pixels |-> 800,
              characteristics |-> "thin, flexible, wrinkled texture"]
        [] n = "Food Container" ->
             [color_min |-> <<220, 220, 220>>, color_max |-> <<255, 255, 255>>,
              min_pixels |-> 500,
              characteristics |-> "rigid plastic, white/clear"]
        [] n = "Aluminum Foil" ->
             [color_min |-> <<180, 180, 180>>, color_max |-> <<240, 240, 240>>,
              min_pixels |-> 300,
              characteristics |-> "highly reflective, crinkled"]
        [] n = "Battery" ->
             [color_min |-> <<20, 20, 20>>, color_max |-> <<80, 80, 80>>,
              min_pixels |-> 200,
              characteristics |-> "cylindrical, dark, small"]
        [] n = "Electronic Device" ->
             [color_min |-> <<10, 10, 10>>, color_max |-> <<60, 60, 60>>,
              min_pixels |-> 600,
              characteristics |-> "dark, rigid, complex shape"] ]

Rec(category, subcategory, bin_color, instructions, color, recyclable, hazardous) ==
    [category |-> category, subcategory |-> subcategory, bin_color |-> bin_color,
     instructions |-> instructions, color |-> color, recyclable |-> recyclable,
     hazardous |-> hazardous]

classification_map ==
    [ n \in {ProfileOrder[i] : i \in 1..Len(ProfileOrder)} |->
      CASE n = "Plastic Bottle" ->
             Rec("Recyclable - Plastic", "PET/HDPE Bottle", "Blue Bin",
                 
                 "Empty and rinse bottle. Remove cap. Crush to save space. Check for recycling symbol (#1 or #2).", "blue", TRUE, FALSE)
        [] n = "Food Waste" ->
             Rec("Compost/Organic", "Biodegradable Organic Matter", "Green/Brown Bin",
                 
                 "Place in compost bin. Avoid meat, dairy, or oily foods if composting at home.",
                 "green", FALSE, FALSE)
        [] n = "Paper/Cardboard" ->
             Rec("Recyclable - Paper", "Clean Paper/Cardboard", "Blue Bin",
                 
                 "Flatten cardboard boxes. Remove plastic tape and labels. Keep dry and clean.", "yellow",
                 TRUE, FALSE)
        [] n = "Metal Can" ->
             Rec("Recyclable - Metal", "Aluminum/Steel Can", "Blue Bin",
                 
                 "Rinse thoroughly. Remove paper labels if possible. Crush to save space.", "gray", TRUE, FALSE)
        [] n = "Glass" ->
             Rec("Recyclable - Glass", "Glass Container", "Blue/Green Bin",
                 
                 "Rinse thoroughly. Remove metal caps. Separate by color if required locally.", "blue",
                 TRUE, FALSE)
        [] n = "Plastic Bag" ->
             Rec("Soft Plastic", "Film Plastic", "Special Collection",
                 
                 "Take to grocery store collection point. DO NOT put in regular recycling bin.", "yellow", TRUE, FALSE)
        [] n = "Food Container" ->
             Rec("Recyclable - Plastic", "Food-grade Plastic", "Blue Bin",
                 
                 "Wash thoroughly to remove food residue. Check recycling number (usually #5).", "blue",
                 TRUE, FALSE)
        [] n = "Aluminum Foil" ->
             Rec("Recyclable - Metal", "Aluminum Foil", "Blue Bin",
                 
                 "Clean off food residue. Ball up to golf-ball size before recycling.", "gray", TRUE, FALSE)
        [] n = "Battery" ->
             Rec("Hazardous Waste", "Electronic/Chemical Waste", "Special Disposal",
                 
                 "NEVER throw in regular trash. Take to designated battery collection point or e-waste facility.", "red",
                 FALSE, TRUE)
        [] n = "Electronic Device" ->
             Rec("E-Waste", "Electronic Equipment", "E-Waste Collection",
                 
                 "Take to certified e-waste recycling center. Contains valuable and hazardous materials.", "red",
                 FALSE, TRUE) ]

default_classification ==
    Rec("General Waste", "Unidentified", "Black Bin",
                 "Unable to classify. Dispose in general waste bin.", "gray", FALSE, FALSE)

----------------------------------------------------------------------------
\* Arithmetic helpers

Min2(a, b) == IF a <= b THEN a ELSE b

\* Python round() of the non-negative fraction a / b to an integer: to the
\* nearest, a tie to the even neighbour.
RoundDiv(a, b) ==
    LET q == a \div b
        r == a % b
    IN  IF 2 * r < b THEN q
        ELSE IF 2 * r > b THEN q + 1
        ELSE IF q % 2 = 0 THEN q ELSE q + 1

RECURSIVE SumLen(_)
SumLen(runs) == IF runs = << >> THEN 0 ELSE Head(runs).len + SumLen(Tail(runs))

\* Offset (row-major, from 0) of the first pixel of run i.
RunStart(runs, i) == SumLen(SubSeq(runs, 1, i - 1))

----------------------------------------------------------------------------
\* Image.convert('RGB')

\* A pixel of an 'L' (greyscale) image is one value <<v>> and becomes
\* <<v, v, v>>; a pixel of an 'RGB' image is kept.
convert(image) ==
    [ mode |-> "RGB", width |-> image.width, height |-> image.height,
      runs |-> [ i \in 1..Len(image.runs) |->
                   [ value |-> IF image.mode = "L"
                               THEN << image.runs[i].value[1], image.runs[i].value[1],
                                       image.runs[i].value[1] >>
                               ELSE image.runs[i].value,
                     len |-> image.runs[i].len ] ] ]

----------------------------------------------------------------------------
\* detect_materials_in_image

\* One pixel against a profile's colour range: every channel inside
\* [color_min, color_max], both ends included.
InRange(px, profile) ==
    \A c \in 1..3 : px[c] >= profile.color_min[c] /\ px[c] <= profile.color_max[c]

\* The colour mask of a profile, as the set of runs whose pixels it selects.
mask(image, name) ==
    {i \in 1..Len(image.runs) : InRange(image.runs[i].value, material_profiles[name])}

RECURSIVE SumOver(_, _)
SumOver(f, S) ==
    IF S = {} THEN 0
    ELSE LET i == CHOOSE j \in S : TRUE IN f[i] + SumOver(f, S \ {i})

SetMin(S) == CHOOSE m \in S : \A k \in S : m <= k
SetMax(S) == CHOOSE m \in S : \A k \in S : m >= k

\* np.sum(mask)
pixel_count(image, name) ==
    SumOver([i \in 1..Len(image.runs) |-> image.runs[i].len], mask(image, name))

\* Variant: the threshold compared with > instead of >=.
ReachesMinPixels_strict(count, name) == count > material_profiles[name].min_pixels

\* The threshold test of a profile.
ReachesMinPixels(count, name) == count >= material_profiles[name].min_pixels

\* Bounding box [x_min, y_min, x_max, y_max] of np.argwhere(mask).  Run i
\* holds the offsets first(i)..last(i); a run that goes over a row end
\* touches column 0 and column width - 1.
bbox(image, name) ==
    LET w == image.width
        m == mask(image, name)
        first(i) == RunStart(image.runs, i)
        last(i) == RunStart(image.runs, i) + image.runs[i].len - 1
        wraps(i) == last(i) \div w > first(i) \div w
    IN  << SetMin({IF wraps(i) THEN 0 ELSE first(i) % w : i \in m}),
           SetMin({first(i) \div w : i \in m}),
           SetMax({IF wraps(i) THEN w - 1 ELSE last(i) % w : i \in m}),
           SetMax({last(i) \div w : i \in m}) >>

\* Number of offsets below n (row-major, row length w) whose column lies in
\* x0..x1.
ColumnsBelow(n, w, x0, x1) ==
    LET c == (n % w) - x0
        k == x1 - x0 + 1
    IN  (n \div w) * k + (IF c < 0 THEN 0 ELSE IF c > k THEN k ELSE c)

\* Number of pixels of run i inside the box b.
InBox(image, i, b) ==
    LET w == image.width
        lo0 == RunStart(image.runs, i)
        hi0 == lo0 + image.runs[i].len
        lo == IF lo0 < b[2] * w THEN b[2] * w ELSE lo0
        hi == IF hi0 > (b[4] + 1) * w THEN (b[4] + 1) * w ELSE hi0
    IN  IF hi <= lo THEN 0
        ELSE ColumnsBelow(hi, w, b[1], b[3]) - ColumnsBelow(lo, w, b[1], b[3])

\* region = pixels[y_min:y_max+1, x_min:x_max+1] and its statistics, as exact
\* fractions.  The variance entry is left out: as an exact fraction it
\* needs numbers beyond 32 bits, and no code reads it.
region_stats_of(image, b) ==
    LET idx == 1..Len(image.runs)
        n == SumOver([i \in idx |-> InBox(image, i, b)], idx)
        chan(c) == SumOver([i \in idx |-> InBox(image, i, b) * image.runs[i].value[c]], idx)
    IN  [ avg_color |-> [c \in 1..3 |-> [num |-> chan(c), den |-> n]],
          brightness |-> [num |-> chan(1) + chan(2) + chan(3), den |-> 3 * n] ]

\* Variant: the confidence without its cap of 0.95.
confidence_of_uncapped(count, total) ==
    [num |-> 70 * total + 100 * count, den |-> 100 * total]

\* min(0.95, 0.70 + percentage / 100), percentage = count / total * 100.
confidence_of(count, total) ==
    [num |-> Min2(95 * total, 70 * total + 100 * count), den |-> 100 * total]

\* round(percentage, 2), in hundredths of a percent.
coverage_of(count, total) == RoundDiv(count * 10000, total)

\* The detection appended for one profile.
ProfileDetection(image, name) ==
    LET count == pixel_count(image, name)
        total == image.width * image.height
        b == bbox(image, name)
    IN  [ material |-> name,
          confidence |-> confidence_of(count, total),
          coverage |-> coverage_of(count, total),
          characteristics |-> material_profiles[name].characteristics,
          region_stats |-> region_stats_of(image, b),
          position |-> [x |-> (b[1] + b[3]) \div 2, y |-> (b[2] + b[4]) \div 2,
                        bbox |-> b] ]

\* The loop over material_profiles.items(), from profile i on.
RECURSIVE ScanProfiles(_, _)
ScanProfiles(image, i) ==
    IF i > Len(ProfileOrder) THEN << >>
    ELSE LET name == ProfileOrder[i]
         IN  IF ReachesMinPixels(pixel_count(image, name), name)
                    /\ mask(image, name) # {}
             THEN << ProfileDetection(image, name) >> \o ScanProfiles(image, i + 1)
             ELSE ScanProfiles(image, i + 1)

\* Variant: brightness compared with >= instead of >.
IsLight_inclusive(brightness) == brightness.num >= 180 * brightness.den

\* brightness > 180, brightness a fraction.
IsLight(brightness) == brightness.num > 180 * brightness.den

\* The detection appended when no profile gave one.
FallbackDetection(image) ==
    LET idx == 1..Len(image.runs)
        total == image.width * image.height
        chan(c) == SumOver([i \in idx |-> image.runs[i].len * image.runs[i].value[c]], idx)
        brightness == [num |-> chan(1) + chan(2) + chan(3), den |-> 3 * total]
        light == IsLight(brightness)
    IN  [ material |-> IF light THEN "Light-colored Waste" ELSE "Dark-colored Waste",
          confidence |-> [num |-> 65 * total, den |-> 100 * total],
          coverage |-> 10000,
          characteristics |-> IF light THEN "unidentified light material"
                              ELSE "unidentified dark material",
          region_stats |-> [ avg_color |-> [c \in 1..3 |-> [num |-> chan(c), den |-> total]],
                             brightness |-> brightness ],
          position |-> [x |-> image.width \div 2, y |-> image.height \div 2,
                        bbox |-> <<0, 0, image.width, image.height>>] ]

\* Variant: an ascending stable sort that is then reversed, which turns the
\* order of detections of equal coverage around.
RECURSIVE sort_by_coverage_reversed(_)
sort_by_coverage_reversed(s) ==
    IF s = << >> THEN << >>
    ELSE LET front == sort_by_coverage_reversed(SubSeq(s, 1, Len(s) - 1))
             d == s[Len(s)]
             k == Cardinality({j \in 1..Len(front) : front[j].coverage > d.coverage})
         IN  SubSeq(front, 1, k) \o << d >> \o SubSeq(front, k + 1, Len(front))

\* list.sort(key=coverage, reverse=True): stable, so detections of equal
\* coverage keep the order they were appended in.
RECURSIVE sort_by_coverage(_)
sort_by_coverage(s) ==
    IF s = << >> THEN << >>
    ELSE LET front == sort_by_coverage(SubSeq(s, 1, Len(s) - 1))
             d == s[Len(s)]
             k == Cardinality({j \in 1..Len(front) : front[j].coverage >= d.coverage})
         IN  SubSeq(front, 1, k) \o << d >> \o SubSeq(front, k + 1, Len(front))

\* Variant: the detector without its fallback branch.
detect_materials_without_fallback(img_data) ==
    LET image == convert(img_data)
        found == ScanProfiles(image, 1)
    IN  [ detected_materials |-> sort_by_coverage(found),
          material_regions |-> [i \in 1..Len(found) |->
                                  [name |-> found[i].material,
                                   bbox |-> found[i].position.bbox]] ]

detect_materials_in_image(img_data) ==
    LET image == convert(img_data)
        found == ScanProfiles(image, 1)
        all == IF found = << >> THEN << FallbackDetection(image) >> ELSE found
    IN  [ detected_materials |-> sort_by_coverage(all),
          material_regions |-> [i \in 1..Len(found) |->
                                  [name |-> found[i].material,
                                   bbox |-> found[i].position.bbox]] ]

----------------------------------------------------------------------------
\* classify_waste_material

\* Variant: a name outside the table is classified by the brightness of its
\* region, a bright one as paper.
classify_by_brightness(material_name, region_stats) ==
    IF material_name \in DOMAIN classification_map
    THEN classification_map[material_name]
    ELSE IF region_stats.brightness.num > 180 * region_stats.brightness.den
    THEN classification_map["Paper/Cardboard"]
    ELSE default_classification

\* Variant: the battery record marked recyclable as well as hazardous.
classify_battery_recyclable(material_name, region_stats) ==
    IF material_name = "Battery"
    THEN [classification_map["Battery"] EXCEPT !.recyclable = TRUE]
    ELSE IF material_name \in DOMAIN classification_map
    THEN classification_map[material_name]
    ELSE default_classification

\* classification_map.get(material_name, default); region_stats is not read.
classify_waste_material(material_name, region_stats) ==
    IF material_name \in DOMAIN classification_map
    THEN classification_map[material_name]
    ELSE default_classification

----------------------------------------------------------------------------
\* classify_waste_api, POST /api/predict

\* Variant: only the missing 'file' part is checked, not the filename.
MissingInput_no_filename_check(req) ==
    IF "file" \notin DOMAIN req.files
    THEN [error |-> "No file uploaded", message |-> "Please upload an image file."]
    ELSE [error |-> "", message |-> ""]

\* The two early returns: 'file' not in request.files, or an empty filename.
MissingInput(req) ==
    IF "file" \notin DOMAIN req.files
    THEN [error |-> "No file uploaded", message |-> "Please upload an image file."]
    ELSE IF req.files.file.filename = ""
    THEN [error |-> "Empty filename", message |-> "No file selected."]
    ELSE [error |-> "", message |-> ""]

\* One entry of classified_materials; round(confidence, 2) in hundredths.
ClassifiedItem(material) ==
    [ detected_material |-> material.material,
      confidence |-> RoundDiv(100 * material.confidence.num, material.confidence.den),
      coverage_percentage |-> material.coverage,
      characteristics |-> material.characteristics,
      position |-> material.position,
      classification |-> classify_waste_material(material.material,
                                                 material.region_stats) ]

total_recyclable(materials) ==
    Cardinality({i \in 1..Len(materials) : materials[i].classification.recyclable})

total_hazardous(materials) ==
    Cardinality({i \in 1..Len(materials) : materials[i].classification.hazardous})

\* Variant: the hazardous items are not subtracted.
general_waste_items_less_recyclable(materials) ==
    Len(materials) - total_recyclable(materials)

\* summary.general_waste_items
general_waste_items(materials) ==
    Len(materials) - total_recyclable(materials) - total_hazardous(materials)

primary_classification(materials) ==
    IF materials # << >>
    THEN [ category |-> materials[1].classification.category,
           status |-> materials[1].classification.subcategory,
           message |-> materials[1].classification.instructions,
           color |-> materials[1].classification.color,
           bin_color |-> materials[1].classification.bin_color ]
    ELSE [ category |-> "Unknown", status |-> "No materials detected",
           message |-> "Upload a clearer image.", color |-> "gray", bin_color |-> "N/A" ]

SuccessBody(materials) ==
    [ success |-> TRUE,
      total_materials_detected |-> Len(materials),
      materials |-> materials,
      summary |-> [ recyclable_items |-> total_recyclable(materials),
                    hazardous_items |-> total_hazardous(materials),
                    general_waste_items |-> general_waste_items(materials) ],
      primary_classification |-> primary_classification(materials) ]

----------------------------------------------------------------------------
\* Inputs

\* Colours of uploaded RGB images: black, two dark greys, an organic green, a
\* pale blue, the greys 180 and 200, a grey one step above brightness 180,
\* white and a pink that no profile holds.
Palette ==
    { <<0, 0, 0>>, <<40, 40, 40>>, <<70, 70, 70>>, <<100, 150, 60>>,
      <<150, 180, 230>>, <<180, 180, 180>>, <<181, 180, 180>>, <<200, 200, 200>>,
      <<255, 255, 255>>, <<255, 150, 255>> }

\* Grey levels of uploaded 'L' images.
GreyPalette == { <<0>>, <<40>>, <<128>>, <<230>> }

\* <<width, height>> of uploaded images.
Sizes == { <<1, 1>>, <<40, 25>>, <<100, 100>> }

\* Offsets at which one run may end and the next begin: the tenths of the
\* image.
CutPoints(total) == {(k * total) \div 10 : k \in {j \in 1..9 : (j * total) % 10 = 0}}

RECURSIVE RunLens(_, _, _)
RunLens(cuts, from, total) ==
    IF cuts = {} THEN << total - from >>
    ELSE LET c == SetMin(cuts)
         IN  << c - from >> \o RunLens(cuts \ {c}, c, total)

\* The ways to cut an image of one size into at most MaxRuns runs.
CutSets(size) ==
    {C \in SUBSET CutPoints(size[1] * size[2]) : Cardinality(C) < MaxRuns}

\* The colourings of the runs of one cut, neighbouring runs of different
\* colours.
Colourings(mode, C) ==
    { f \in [1..(Cardinality(C) + 1) -> IF mode = "L" THEN GreyPalette ELSE Palette] :
        \A i \in 1..Cardinality(C) : f[i] # f[i + 1] }

\* The decoded image of one mode, size, cut and colouring.
ImageOf(mode, size, C, col) ==
    LET lens == RunLens(C, 0, size[1] * size[2])
    IN  [ mode |-> mode, width |-> size[1], height |-> size[2],
          runs |-> [i \in 1..Len(lens) |-> [value |-> col[i], len |-> lens[i]]] ]

\* Bytes that Image.open or Image.verify rejects.
Corrupt == [mode |-> "corrupt"]

NoFiles == << >>

Upload(filename, content) ==
    [files |-> [file |-> [filename |-> filename, content |-> content]]]

\* Arguments of direct calls of classify_waste_material.
MaterialNames ==
    DOMAIN classification_map
    \cup {"Light-colored Waste", "Dark-colored Waste", "Styrofoam", ""}

RegionStats ==
    { [ avg_color |-> [c \in 1..3 |-> [num |-> v, den |-> 1]],
        brightness |-> [num |-> 3 * v, den |-> 3] ] : v \in {0, 200} }

----------------------------------------------------------------------------
\* The state machine

NoRequest == [files |-> NoFiles, none |-> TRUE]
NoImage == [mode |-> "none"]
NoResponse == [status |-> 0]
NoCall == [name |-> "", made |-> FALSE]

Init ==
    /\ pc = "idle"
    /\ request = NoRequest
    /\ img = NoImage
    /\ detected_materials = << >>
    /\ material_regions = << >>
    /\ classified_materials = << >>
    /\ response = NoResponse
    /\ invoked = {}
    /\ call = NoCall

\* A POST /api/predict request reaches the handler.
Receive(req) ==
    /\ pc = "idle"
    /\ request' = req
    /\ pc' = "received"
    /\ call' = NoCall
    /\ UNCHANGED <<img, detected_materials, material_regions, classified_materials,
                   response, invoked>>

\* The request has no 'file' part.
ReceiveNoFile == Receive([files |-> NoFiles])

\* The 'file' part holds bytes that are no image.
ReceiveCorrupt ==
    /\ pc = "idle"
    /\ \E fn \in {"", "waste.jpg"} : Receive(Upload(fn, Corrupt))

\* The 'file' part holds an image.
ReceiveImage ==
    /\ pc = "idle"
    /\ \E fn \in {"", "waste.jpg"}, mode \in {"RGB", "L"}, size \in Sizes :
        \E C \in CutSets(size) :
            \E col \in Colourings(mode, C) :
                Receive(Upload(fn, ImageOf(mode, size, C, col)))

\* The checks of the upload before the try block.
CheckFile ==
    /\ pc = "received"
    /\ IF MissingInput(request).error # ""
       THEN /\ response' = [status |-> 400, body |-> MissingInput(request)]
            /\ pc' = "responded"
       ELSE /\ response' = response
            /\ pc' = "file_ok"
    /\ UNCHANGED <<request, img, detected_materials, material_regions,
                   classified_materials, invoked, call>>

\* uploaded_file.read(), Image.open, img.verify, Image.open again; any
\* exception is answered by the except branch.
Decode ==
    /\ pc = "file_ok"
    /\ invoked' = invoked \cup {"Image.open"}
    /\ IF request.files.file.content = Corrupt
       THEN /\ response' = [status |-> 400,
                            body |-> [success |-> FALSE, error |-> "Processing failed",
                                      message |-> "Image processing error"]]
            /\ pc' = "responded"
            /\ img' = img
       ELSE /\ img' = request.files.file.content
            /\ pc' = "decoded"
            /\ response' = response
    /\ UNCHANGED <<request, detected_materials, material_regions,
                   classified_materials, call>>

\* Step 1: detected_materials, material_regions = detect_materials_in_image(img)
Detect ==
    /\ pc = "decoded"
    /\ invoked' = invoked \cup {"detect_materials_in_image"}
    /\ LET result == detect_materials_in_image(img)
       IN  /\ detected_materials' = result.detected_materials
           /\ material_regions' = result.material_regions
    /\ pc' = "detected"
    /\ UNCHANGED <<request, img, classified_materials, response, call>>

\* Step 2: the loop that classifies each detected material.
Classify ==
    /\ pc = "detected"
    /\ invoked' = IF detected_materials = << >> THEN invoked
                  ELSE invoked \cup {"classify_waste_material"}
    /\ classified_materials' =
           [i \in 1..Len(detected_materials) |-> ClassifiedItem(detected_materials[i])]
    /\ pc' = "classified"
    /\ UNCHANGED <<request, img, detected_materials, material_regions, response, call>>

\* Step 3: the summary and the 200 response.
Respond ==
    /\ pc = "classified"
    /\ response' = [status |-> 200, body |-> SuccessBody(classified_materials)]
    /\ pc' = "responded"
    /\ UNCHANGED <<request, img, detected_materials, material_regions,
                   classified_materials, invoked, call>>

\* The handler has returned; nothing of the request is kept.
Return ==
    /\ pc \in {"responded", "called"}
    /\ pc' = "idle"
    /\ request' = NoRequest
    /\ img' = NoImage
    /\ detected_materials' = << >>
    /\ material_regions' = << >>
    /\ classified_materials' = << >>
    /\ response' = NoResponse
    /\ invoked' = {}
    /\ call' = NoCall

\* A call of classify_waste_material outside a request.
ClassifyCall ==
    /\ pc \in {"idle", "called"}
    /\ \E name \in MaterialNames, stats \in RegionStats :
          call' = [name |-> name, made |-> TRUE, region_stats |-> stats,
                   result |-> classify_waste_material(name, stats)]
    /\ pc' = "called"
    /\ UNCHANGED <<request, img, detected_materials, material_regions,
                   classified_materials, response, invoked>>

Next ==
    \/ ReceiveNoFile
    \/ ReceiveCorrupt
    \/ ReceiveImage
    \/ CheckFile
    \/ Decode
    \/ Detect
    \/ Classify
    \/ Respond
    \/ Return
    \/ ClassifyCall

Spec == Init /\ [][Next]_vars

----------------------------------------------------------------------------
\* Properties

\* detect_materials_in_image has returned for the request at hand.
Detected == pc \in {"detected", "classified"} \/ (pc = "responded" /\ response.status = 200)

\* The handler has answered 200.
Succeeded == pc = "responded" /\ response.status = 200

FallbackNames == {"Light-colored Waste", "Dark-colored Waste"}

ProfileIndex(name) == CHOOSE i \in 1..Len(ProfileOrder) : ProfileOrder[i] = name

\* Number of pixels of the uploaded image inside the colour range of a profile.
Matching(name) == pixel_count(convert(img), name)

\* The profiles whose count of matching pixels reaches min_pixels.
Qualifying ==
    {name \in DOMAIN material_profiles :
        Matching(name) >= material_profiles[name].min_pixels}

\* Indices of the profile-based and of the fallback detections.
ProfileBased ==
    {i \in 1..Len(detected_materials) :
        detected_materials[i].material \in DOMAIN material_profiles}
Fallbacks ==
    {i \in 1..Len(detected_materials) : detected_materials[i].material \in FallbackNames}

\* a / b = c / 100 for a confidence [num |-> a, den |-> b]
ConfIs(conf, c) == 100 * conf.num = c * conf.den
ConfWithin(conf, lo, hi) == 100 * conf.num >= lo * conf.den /\ 100 * conf.num <= hi * conf.den

\* C1: for every image of nonzero area the detector returns at least one
\* detection, and when no profile reaches its min_pixels the list is exactly
\* one fallback detection.
C1_NonEmptyDetections ==
    Detected =>
        /\ Len(detected_materials) >= 1
        /\ (Qualifying = {} =>
               Len(detected_materials) = 1 /\ Cardinality(Fallbacks) = 1)

C1_Witness ==
    /\ pc = "detected"
    /\ Qualifying = {}
    /\ \E name \in DOMAIN material_profiles : Matching(name) > 0
    /\ Cardinality(Fallbacks) = 1

\* C2: every returned confidence lies in [0.60, 0.95] and every coverage in
\* [0, 100]; a profile-based detection has confidence in [0.70, 0.95], a
\* fallback detection exactly 0.65.
C2_ConfidenceAndCoverageRanges ==
    Detected =>
        \A i \in 1..Len(detected_materials) :
            LET d == detected_materials[i]
            IN  /\ ConfWithin(d.confidence, 60, 95)
                /\ d.coverage >= 0 /\ d.coverage <= 10000
                /\ i \in ProfileBased => ConfWithin(d.confidence, 70, 95)
                /\ i \notin ProfileBased => ConfIs(d.confidence, 65)

\* A list with one confidence at the cap, its uncapped value above it, and
\* one below the cap.
C2_Witness ==
    /\ pc = "detected"
    /\ \E i \in ProfileBased :
          /\ ConfIs(detected_materials[i].confidence, 95)
          /\ Matching(detected_materials[i].material) * 4 > img.width * img.height
    /\ \E i \in ProfileBased : ConfIs(detected_materials[i].confidence, 80)

\* C3: the returned list is ordered by coverage descending, and detections of
\* equal coverage stand in the order of their profiles in material_profiles.
C3_SortedByCoverageStable ==
    Detected =>
        \A i, j \in 1..Len(detected_materials) :
            i < j =>
                /\ detected_materials[i].coverage >= detected_materials[j].coverage
                /\ (detected_materials[i].coverage = detected_materials[j].coverage
                      /\ i \in ProfileBased /\ j \in ProfileBased)
                   => ProfileIndex(detected_materials[i].material)
                        < ProfileIndex(detected_materials[j].material)

\* A list that the sort has reordered and that holds a tie.
C3_Witness ==
    /\ pc = "detected"
    /\ \E i, j \in ProfileBased :
          /\ i < j
          /\ detected_materials[i].coverage > detected_materials[j].coverage
          /\ ProfileIndex(detected_materials[i].material)
                > ProfileIndex(detected_materials[j].material)
    /\ \E i, j \in ProfileBased :
          i < j /\ detected_materials[i].coverage = detected_materials[j].coverage

\* The result a call must give for a name.
ExpectedRecord(name) ==
    IF name \in DOMAIN classification_map THEN classification_map[name]
    ELSE default_classification

\* C4: classify_waste_material gives for a name of the table that table's
\* record and for any other name (the fallback names among them) the General
\* Waste record with recyclable and hazardous false, whatever region_stats is;
\* two calls in a row with the same name give the same record.
C4_ClassifierTotalDeterministic ==
    /\ [](pc = "called" =>
            /\ call.result = ExpectedRecord(call.name)
            /\ call.name \notin DOMAIN classification_map =>
                  /\ call.result.category = "General Waste"
                  /\ ~call.result.recyclable
                  /\ ~call.result.hazardous)
    /\ [][(pc = "called" /\ pc' = "called" /\ call'.name = call.name)
            => call'.result = call.result]_vars

C4_Witness ==
    /\ pc = "called"
    /\ call.name = "Light-colored Waste"
    /\ call.region_stats.brightness.num > 180 * call.region_stats.brightness.den
    /\ call.result.category = "General Waste"

\* The uploaded image is 100 x 100 and every pixel of it is (0, 0, 0).
AllBlack100 ==
    /\ img.mode = "RGB" /\ img.width = 100 /\ img.height = 100
    /\ \A i \in 1..Len(img.runs) : img.runs[i].value = <<0, 0, 0>>

\* C5: for an all-black 100 x 100 image the detector reports Battery and
\* Electronic Device, each with coverage 100.0 and confidence 0.95, and no
\* fallback detection.
C5_AllBlackMatchesDarkProfiles ==
    (Detected /\ AllBlack100) =>
        /\ \A name \in {"Battery", "Electronic Device"} :
              \E i \in 1..Len(detected_materials) :
                  /\ detected_materials[i].material = name
                  /\ detected_materials[i].coverage = 10000
                  /\ ConfIs(detected_materials[i].confidence, 95)
        /\ Fallbacks = {}

\* C6: in a 200 response general_waste_items is total_materials_detected less
\* recyclable_items less hazardous_items, the total being the length of
\* materials and the two counts the numbers of recyclable and of hazardous
\* items.
C6_SummaryIdentity ==
    Succeeded =>
        LET b == response.body
            n(flag) == Cardinality({i \in 1..Len(b.materials) :
                                      b.materials[i].classification[flag]})
        IN  /\ b.total_materials_detected = Len(b.materials)
            /\ b.summary.recyclable_items = n("recyclable")
            /\ b.summary.hazardous_items = n("hazardous")
            /\ b.summary.general_waste_items =
                   b.total_materials_detected - b.summary.recyclable_items
                     - b.summary.hazardous_items

C6_Witness ==
    /\ Succeeded
    /\ response.body.summary.recyclable_items > 0
    /\ response.body.summary.hazardous_items > 0

\* The request has no 'file' part, or one with an empty filename.
NoUsableFile ==
    "file" \notin DOMAIN request.files \/ request.files.file.filename = ""

\* C7: a request without 'file', or with an empty filename, is answered 400
\* with a body of 'error' and 'message', and neither the decode nor the
\* detector nor the classifier has run for it.
C7_MissingInputRejected ==
    /\ (pc \notin {"idle", "called", "received"} /\ NoUsableFile) =>
          /\ pc = "responded"
          /\ response.status = 400
          /\ DOMAIN response.body = {"error", "message"}
          /\ response.body.error # "" /\ response.body.message # ""
          /\ invoked = {}
          /\ img = NoImage /\ detected_materials = << >> /\ classified_materials = << >>

C7_Witness ==
    /\ pc = "responded"
    /\ "file" \in DOMAIN request.files
    /\ request.files.file.filename = ""
    /\ request.files.file.content.mode = "RGB"
    /\ response.status = 400

\* C8: the profile-based detections are one for each profile whose count of
\* pixels inside its inclusive colour range is >= its min_pixels and none for
\* any other profile, profiles that match the same pixels each being
\* reported; an image smaller than every min_pixels gives none.
C8_ProfileDetectionsExact ==
    Detected =>
        /\ {detected_materials[i].material : i \in ProfileBased} = Qualifying
        /\ Cardinality(ProfileBased) = Cardinality(Qualifying)
        /\ (\A name \in DOMAIN material_profiles :
                img.width * img.height < material_profiles[name].min_pixels)
              => ProfileBased = {}

\* Two profiles reported for the same pixels, one exactly at its threshold,
\* while a third matches pixels but stays below its own.
C8_Witness ==
    /\ pc = "detected"
    /\ \E a, b \in Qualifying :
          /\ a # b
          /\ mask(convert(img), a) = mask(convert(img), b)
          /\ Matching(a) = material_profiles[a].min_pixels
    /\ \E c \in DOMAIN material_profiles \ Qualifying : Matching(c) > 0

\* Sum of the three channels over all pixels of the uploaded image.
ChannelSum ==
    LET image == convert(img)
        idx == 1..Len(image.runs)
    IN  SumOver([i \in idx |-> image.runs[i].len * (image.runs[i].value[1]
                   + image.runs[i].value[2] + image.runs[i].value[3])], idx)

\* C9: when no profile gives a detection the list is one detection, Light-
\* colored Waste if the mean of the channel means is above 180 and Dark-
\* colored Waste otherwise, with confidence 0.65, coverage 100.0 and the
\* whole image as bounding box; a fallback detection never shares a list with
\* a profile-based one.
C9_FallbackDetection ==
    Detected =>
        /\ Qualifying = {} =>
              /\ Len(detected_materials) = 1
              /\ detected_materials[1].material =
                     (IF ChannelSum > 180 * 3 * img.width * img.height
                      THEN "Light-colored Waste" ELSE "Dark-colored Waste")
              /\ ConfIs(detected_materials[1].confidence, 65)
              /\ detected_materials[1].coverage = 10000
              /\ detected_materials[1].position.bbox = <<0, 0, img.width, img.height>>
        /\ Fallbacks # {} => ProfileBased = {}

\* The fallback at brightness exactly 180.
C9_Witness ==
    /\ pc = "detected"
    /\ ChannelSum = 180 * 3 * img.width * img.height
    /\ Len(detected_materials) = 1
    /\ detected_materials[1].material = "Dark-colored Waste"

\* C10: in a 200 response general_waste_items is >= 0 and is the number of
\* items neither recyclable nor hazardous, recyclable_items plus
\* hazardous_items is at most total_materials_detected, and no record the
\* classifier gives is both recyclable and hazardous.
C10_GeneralWasteCount ==
    /\ Succeeded =>
          LET b == response.body
          IN  /\ b.summary.general_waste_items >= 0
              /\ b.summary.general_waste_items =
                     Cardinality({i \in 1..Len(b.materials) :
                                    /\ ~b.materials[i].classification.recyclable
                                    /\ ~b.materials[i].classification.hazardous})
              /\ b.summary.recyclable_items + b.summary.hazardous_items
                    <= b.total_materials_detected
    /\ pc = "called" => ~(call.result.recyclable /\ call.result.hazardous)

C10_Witness ==
    /\ Succeeded
    /\ response.body.summary.hazardous_items > 0
    /\ response.body.summary.general_waste_items > 0

====
